---- MODULE Spec2Model ----
(***************************************************************************)
(* Session-cookie manager, Auth facade and Auth registry of                *)
(* firebase-server-sdk-go.                                                 *)
(*                                                                         *)
(* src/session_api_request.go holds two listings of the handler file       *)
(* (lines 1-136 and lines 138-243); the operators that model them carry    *)
(* the suffix R1 and R2 and every handler action is taken for either one.  *)
(* src/token.go and src/unnamed/part_002 are two listings of the Token     *)
(* type; their accessors carry the suffix T1 (token.go) and T2 (part_002). *)
(***************************************************************************)
EXTENDS Integers, Sequences, FiniteSets, TLC

VARIABLES
    now,            \* the clock, in epoch seconds
    users,          \* the backend's accounts: uid -> TokensValidAfterMillis
    revokedAt,      \* uid -> time of the last successful RevokeRefreshTokens, or -1
    ts,             \* Auth.ts
    last,           \* the call just made, with its arguments and results
    authInstances,  \* the registry: its mutex and its map
    pc,             \* where each caller of GetAuthWithApp stands
    appName,        \* each caller's local appName
    ret,            \* what each caller's last GetAuthWithApp returned
    calls,          \* how many calls each caller has made
    heap            \* the Auth values allocated so far

coreVars == <<now, users, revokedAt, ts, last>>
regVars == <<authInstances, pc, appName, ret, calls, heap>>
vars == <<now, users, revokedAt, ts, last, authInstances, pc, appName, ret, calls, heap>>

(* ------------------------------ bounds -------------------------------- *)

\* the clock advances in ticks of TickSeconds seconds, MaxTicks times
TickSeconds == 30
MaxTicks == 3

\* lifetime, in ticks, of the cookies the environment presents
CookieTicks == 2

\* concurrent callers of GetAuthWithApp, and the calls each makes
NumCallers == 3
MaxCalls == 2

Times == {k * TickSeconds : k \in 0..MaxTicks}

Revisions == {1, 2}

(* --------------------------- program values --------------------------- *)

Nil == "nil"

UIDs == {"alice", "bob"}

ProjectID == "proj"

errIllegalType == "errIllegalType"
errMissingRequestTarget == "errMissingRequestTarget"
AuthErrUserNotFound == "AuthErrUserNotFound"
ErrMissingUID == "User id could not be retrieved from token"
ErrMissingIat == "Unable to get issued at timestamp from token"
ErrRevoked == "Token has been revoked"
ErrUIDExtraction == "Unable to extract user id from token"
ErrTokenSource == "Error ensuring token source"

NoUser == [UID |-> "", TokensValidAfterMillis |-> 0]

\* a decoded token: the fields the session-cookie manager reads.  hasIat
\* tells whether the payload carried an "iat" claim; the struct field of
\* token.go is 0 without one.
Tokens ==
    { [Issuer |-> "iss", Audience |-> ProjectID, Expires |-> iat + CookieTicks * TickSeconds,
       IssuedAt |-> iat, Subject |-> uid, UID |-> uid, hasIat |-> TRUE] :
         uid \in UIDs \cup {"", "ghost"}, iat \in Times }
    \cup
    { [Issuer |-> "iss", Audience |-> ProjectID, Expires |-> CookieTicks * TickSeconds,
       IssuedAt |-> 0, Subject |-> uid, UID |-> uid, hasIat |-> FALSE] :
         uid \in {"alice"} }

(* --------------------- account lookup collaborator -------------------- *)

\* requestHandler.getAccountByUID: the account record of uid, or
\* AuthErrUserNotFound; every use is one lookup at the backend.
getAccountByUID(uid) ==
    IF uid \in DOMAIN users
    THEN [user |-> [UID |-> uid, TokensValidAfterMillis |-> users[uid]], err |-> Nil]
    ELSE [user |-> NoUser, err |-> AuthErrUserNotFound]

\* Token.UID() of the listing R1 was written against: (uid, ok)
TokenUID(token) == [uid |-> token.UID, ok |-> token.UID # ""]

\* Token.IssuedAt() of the listing R1 was written against: (time, ok)
TokenIssuedAt(token) == [t |-> token.IssuedAt, ok |-> token.hasIat]

\* time.Time.Second(): the second offset within the minute, 0..59
SecondsPerMinute == 60
Second(t) == t % SecondsPerMinute

MillisPerSecond == 1000

(* ------------------------------ checkRevoked -------------------------- *)

\* session_api_request.go:119-136
checkRevokedR1(token) ==
    LET u == TokenUID(token) IN
    IF ~u.ok
    THEN [val |-> FALSE, err |-> ErrMissingUID, lookups |-> 0, user |-> NoUser]
    ELSE LET a == getAccountByUID(u.uid) IN
         IF a.err # Nil
         THEN [val |-> FALSE, err |-> a.err, lookups |-> 1, user |-> NoUser]
         ELSE LET i == TokenIssuedAt(token) IN
              IF ~i.ok
              THEN [val |-> FALSE, err |-> ErrMissingIat, lookups |-> 1, user |-> a.user]
              ELSE [val |-> Second(i.t) * MillisPerSecond < a.user.TokensValidAfterMillis,
                    err |-> Nil, lookups |-> 1, user |-> a.user]

\* session_api_request.go:231-242
checkRevokedR2(token) ==
    LET uid == token.UID
        a == getAccountByUID(uid) IN
    IF a.err # Nil
    THEN [val |-> FALSE, err |-> a.err, lookups |-> 1, user |-> NoUser]
    ELSE LET iat == token.IssuedAt IN
         [val |-> iat * MillisPerSecond < a.user.TokensValidAfterMillis,
          err |-> Nil, lookups |-> 1, user |-> a.user]

checkRevoked(rev, token) ==
    IF rev = 1 THEN checkRevokedR1(token) ELSE checkRevokedR2(token)

(* ---------------------------- token verifier ------------------------- *)

IDTokenIssuer(projectID) == "https://securetoken.google.com/" \o projectID
SessionCookieIssuer(projectID) == "https://session.firebase.google.com/" \o projectID

ErrInvalidSignature == "InvalidSignature"
ErrInvalidIssuer == "InvalidIssuer"
ErrInvalidAudience == "InvalidAudience"
ErrTokenExpired == "TokenExpired"
ErrTokenNotYetValid == "TokenNotYetValid"
ErrInvalidSubject == "InvalidSubject"
ErrServiceAccount == "ServiceAccountMissing"

\* the signed token strings (ID tokens and session cookies) the environment
\* presents: sig tells whether the signature verifies against the key set
JWT(sig, iss, aud, sub, iat) ==
    [sig |-> sig, iss |-> iss, aud |-> aud, sub |-> sub, iat |-> iat,
     exp |-> iat + CookieTicks * TickSeconds]

JWTs ==
    { JWT(TRUE, iss, ProjectID, sub, iat) :
        iss \in {IDTokenIssuer(ProjectID), SessionCookieIssuer(ProjectID)},
        sub \in UIDs, iat \in Times }
    \cup
    { JWT(FALSE, IDTokenIssuer(ProjectID), ProjectID, "alice", 0),
      JWT(TRUE, IDTokenIssuer(ProjectID), "other", "alice", 0),
      JWT(TRUE, IDTokenIssuer(ProjectID), ProjectID, "", 0),
      JWT(TRUE, IDTokenIssuer(ProjectID), ProjectID, "ghost", 0) }

\* the ID tokens callers hand to CreateSessionCookie
IDTokens ==
    { j \in JWTs : j.sub # "bob" /\ (j.iss = IDTokenIssuer(ProjectID) \/ j.iat = 0) }

NoToken ==
    [Issuer |-> "", Audience |-> "", Expires |-> 0, IssuedAt |-> 0, Subject |-> "",
     UID |-> "", hasIat |-> FALSE]

\* newIDTokenVerifier(ctx, projectID): the verifier of plain ID tokens
newIDTokenVerifier(projectID) ==
    [issuer |-> IDTokenIssuer(projectID), audience |-> projectID]

\* verifier.VerifyToken(ctx, tokenString) at the current time
VerifyToken(verifier, jwt) ==
    LET fail(e) == [token |-> NoToken, err |-> e] IN
    IF ~jwt.sig THEN fail(ErrInvalidSignature)
    ELSE IF jwt.iss # verifier.issuer THEN fail(ErrInvalidIssuer)
    ELSE IF jwt.aud # verifier.audience THEN fail(ErrInvalidAudience)
    ELSE IF ~(jwt.exp > now) THEN fail(ErrTokenExpired)
    ELSE IF jwt.iat > now THEN fail(ErrTokenNotYetValid)
    ELSE IF jwt.sub = "" THEN fail(ErrInvalidSubject)
    ELSE [token |-> [Issuer |-> jwt.iss, Audience |-> jwt.aud, Expires |-> jwt.exp,
                     IssuedAt |-> jwt.iat, Subject |-> jwt.sub, UID |-> jwt.sub,
                     hasIat |-> TRUE],
          err |-> Nil]

\* auth.go:80-99  Auth.VerifyIDToken / VerifyIDTokenWithTransport
VerifyIDToken(tokenString, saOk) ==
    IF ~saOk
    THEN [token |-> NoToken, err |-> ErrServiceAccount]
    ELSE VerifyToken(newIDTokenVerifier(ProjectID), tokenString)

\* session_api_request.go:98-104 (and 210-216)
verifySessionCookie(projectID, cookie) ==
    VerifyToken(newIDTokenVerifier(projectID), cookie)

\* session_api_request.go:107-116 (and 219-228)
checkSessionCookieRevoked(rev, projectID, cookie) ==
    LET v == verifySessionCookie(projectID, cookie) IN
    IF v.err # Nil
    THEN [val |-> FALSE, err |-> v.err, lookups |-> 0, verified |-> FALSE, verifies |-> 1]
    ELSE LET c == checkRevoked(rev, v.token) IN
         [val |-> c.val, err |-> c.err, lookups |-> c.lookups, verified |-> TRUE, verifies |-> 1]

\* session_api_request.go:73-95
verifySessionCookieAndCheckRevokedR1(projectID, cookie) ==
    LET v == verifySessionCookie(projectID, cookie) IN
    IF v.err # Nil
    THEN [user |-> NoUser, err |-> v.err, lookups |-> 0, verified |-> FALSE, verifies |-> 1]
    ELSE LET c == checkRevokedR1(v.token)
             valid == c.val IN
         IF c.err # Nil
         THEN [user |-> NoUser, err |-> c.err, lookups |-> c.lookups, verified |-> TRUE, verifies |-> 1]
         ELSE IF ~valid
         THEN [user |-> NoUser, err |-> ErrRevoked, lookups |-> c.lookups, verified |-> TRUE, verifies |-> 1]
         ELSE LET u == TokenUID(v.token) IN
              IF ~u.ok
              THEN [user |-> NoUser, err |-> ErrUIDExtraction, lookups |-> c.lookups,
                    verified |-> TRUE, verifies |-> 1]
              ELSE LET a == getAccountByUID(u.uid) IN
                   [user |-> a.user, err |-> a.err, lookups |-> c.lookups + 1,
                    verified |-> TRUE, verifies |-> 1]

\* session_api_request.go:188-207
verifySessionCookieAndCheckRevokedR2(projectID, cookie) ==
    LET v == verifySessionCookie(projectID, cookie) IN
    IF v.err # Nil
    THEN [user |-> NoUser, err |-> v.err, lookups |-> 0, verified |-> FALSE, verifies |-> 1]
    ELSE LET c == checkRevokedR2(v.token)
             valid == c.val IN
         IF c.err # Nil
         THEN [user |-> NoUser, err |-> c.err, lookups |-> c.lookups, verified |-> TRUE, verifies |-> 1]
         ELSE IF ~valid
         THEN [user |-> NoUser, err |-> ErrRevoked, lookups |-> c.lookups, verified |-> TRUE, verifies |-> 1]
         ELSE LET uid == v.token.UID
                  a == getAccountByUID(uid) IN
              [user |-> a.user, err |-> a.err, lookups |-> c.lookups + 1,
               verified |-> TRUE, verifies |-> 1]

verifySessionCookieAndCheckRevoked(rev, projectID, cookie) ==
    IF rev = 1
    THEN verifySessionCookieAndCheckRevokedR1(projectID, cookie)
    ELSE verifySessionCookieAndCheckRevokedR2(projectID, cookie)

(* --------------------------- request dispatcher ----------------------- *)

ErrTransport == "TransportFailure"

\* the request values handed to the dispatcher
GetAccountInfoRequests ==
    { [type |-> "getAccountInfoRequest", LocalID |-> l, Email |-> e] :
        l \in {<<>>, <<"alice">>}, e \in {<<>>, <<"alice@example.com">>} }

\* the validator with "||" for "&&": a request must carry both keys
createSessionCookieReqFnEither(src) ==
    IF src.type # "getAccountInfoRequest" THEN errIllegalType
    ELSE IF Len(src.LocalID) = 0 \/ Len(src.Email) = 0 THEN errMissingRequestTarget
    ELSE Nil

\* session_api_request.go:12-19  createSessionCookieAPI.reqFn
createSessionCookieReqFnR1(src) ==
    IF src.type # "getAccountInfoRequest" THEN errIllegalType
    ELSE IF Len(src.LocalID) = 0 /\ Len(src.Email) = 0 THEN errMissingRequestTarget
    ELSE Nil

\* session_api_request.go:20-27  createSessionCookieAPI.respFn
createSessionCookieRespFnR1(src) ==
    IF src.type # "getAccountInfoResponse" THEN errIllegalType
    ELSE IF Len(src.Users) = 0 THEN AuthErrUserNotFound
    ELSE Nil

\* session_api_request.go:32-39  verifySessionCookieAndCheckRevokedAPI.reqFn
verifySessionCookieAndCheckRevokedReqFn(src) ==
    IF src.type # "getAccountInfoRequest" THEN errIllegalType
    ELSE IF Len(src.LocalID) = 0 /\ Len(src.Email) = 0 THEN errMissingRequestTarget
    ELSE Nil

\* session_api_request.go:40-47  verifySessionCookieAndCheckRevokedAPI.respFn
verifySessionCookieAndCheckRevokedRespFn(src) ==
    IF src.type # "getAccountInfoResponse" THEN errIllegalType
    ELSE IF Len(src.Users) = 0 THEN AuthErrUserNotFound
    ELSE Nil

\* session_api_request.go:149-156  createSessionCookieAPI.reqFn
createSessionCookieReqFnR2(src) ==
    IF src.type # "getAccountInfoRequest" THEN errIllegalType
    ELSE IF Len(src.LocalID) = 0 /\ Len(src.Email) = 0 THEN errMissingRequestTarget
    ELSE Nil

\* session_api_request.go:157-162  createSessionCookieAPI.respFn
createSessionCookieRespFnR2(src) ==
    IF src.type # "getAccountInfoResponse" THEN errIllegalType
    ELSE Nil

\* the request specifications of each listing
APIs(rev) ==
    IF rev = 1
    THEN {"createSessionCookieAPI", "verifySessionCookieAndCheckRevokedAPI"}
    ELSE {"createSessionCookieAPI"}

reqFn(api, rev, src) ==
    IF api = "verifySessionCookieAndCheckRevokedAPI"
    THEN verifySessionCookieAndCheckRevokedReqFn(src)
    ELSE IF rev = 1 THEN createSessionCookieReqFnR1(src)
    ELSE createSessionCookieReqFnR2(src)

respFn(api, rev, src) ==
    IF api = "verifySessionCookieAndCheckRevokedAPI"
    THEN verifySessionCookieAndCheckRevokedRespFn(src)
    ELSE IF rev = 1 THEN createSessionCookieRespFnR1(src)
    ELSE createSessionCookieRespFnR2(src)

\* requestHandler.call(api, req, resp): the request validator, one round
\* trip, the response validator.  reply is what the backend would answer:
\* whether it is reachable, and its answer decoded into resp.
call(api, rev, req, reply) ==
    LET e == reqFn(api, rev, req) IN
    IF e # Nil
    THEN [err |-> e, roundTrips |-> 0, decoded |-> FALSE]
    ELSE IF ~reply.reachable
    THEN [err |-> ErrTransport, roundTrips |-> 1, decoded |-> FALSE]
    ELSE [err |-> respFn(api, rev, reply.resp), roundTrips |-> 1, decoded |-> TRUE]

\* session_api_request.go:60-70 (and 175-185)
createSessionCookie(rev, idToken, duration, reply) ==
    LET req == [type |-> "createSessionCookieRequest", IDToken |-> idToken,
                Duration |-> duration]
        r == call("createSessionCookieAPI", rev, req, reply) IN
    IF r.err # Nil
    THEN [cookie |-> Nil, err |-> r.err, req |-> req, roundTrips |-> r.roundTrips]
    ELSE [cookie |-> reply.resp.SessionCookie, err |-> Nil, req |-> req,
          roundTrips |-> r.roundTrips]

\* what the backend answers to createSessionCookie
Replies ==
    { [reachable |-> b,
       resp |-> [type |-> "createSessionCookieResponse", SessionCookie |-> "cookie"]] :
         b \in BOOLEAN }

(* ------------------------------ Auth facade --------------------------- *)

NanosPerSecond == 1000000000
SecondsPerHour == 3600

\* a caller's *time.Duration: nil, or nanoseconds
NoDuration == [set |-> FALSE, ns |-> 0]
Durations ==
    {NoDuration} \cup
    { [set |-> TRUE, ns |-> n] : n \in {0, NanosPerSecond - 1, NanosPerSecond + 1,
                                         2 * NanosPerSecond, -(NanosPerSecond + 1)} }

\* Go's integer division truncates toward zero
TruncDiv(a, b) == IF a >= 0 THEN a \div b ELSE -((-a) \div b)

\* int64(d.Seconds())
DurationSeconds(ns) == TruncDiv(ns, NanosPerSecond)

\* Auth.ensureTokenSource: builds the token source on first use; tsOk tells
\* whether building it succeeds
ensureTokenSource(tsOk) ==
    IF ts # Nil THEN [err |-> Nil, ts |-> ts]
    ELSE IF tsOk THEN [err |-> Nil, ts |-> "tokenSource"]
    ELSE [err |-> ErrTokenSource, ts |-> Nil]

\* Auth.CreateSessionCookie with the result of VerifyIDToken ignored
CreateSessionCookieUnverified(rev, idToken, duration, tsOk, saOk, reply) ==
    LET e == ensureTokenSource(tsOk) IN
    IF e.err # Nil
    THEN [cookie |-> Nil, err |-> ErrTokenSource, dispatched |-> FALSE, verifyErr |-> Nil,
          roundTrips |-> 0, verifies |-> 0]
    ELSE LET v == VerifyIDToken(idToken, saOk)
             expiry == IF duration.set
                       THEN DurationSeconds(duration.ns)
                       ELSE SecondsPerHour * 24 * 5
             c == createSessionCookie(rev, idToken, expiry, reply) IN
         [cookie |-> c.cookie, err |-> c.err, dispatched |-> TRUE, verifyErr |-> v.err,
          roundTrips |-> c.roundTrips, verifies |-> 1, req |-> c.req]

\* auth.go:158-176  Auth.CreateSessionCookie
CreateSessionCookie(rev, idToken, duration, tsOk, saOk, reply) ==
    LET e == ensureTokenSource(tsOk) IN
    IF e.err # Nil
    THEN [cookie |-> Nil, err |-> ErrTokenSource, dispatched |-> FALSE, verifyErr |-> Nil,
          roundTrips |-> 0, verifies |-> 0]
    ELSE LET v == VerifyIDToken(idToken, saOk) IN
         IF v.err # Nil
         THEN [cookie |-> Nil, err |-> v.err, dispatched |-> FALSE, verifyErr |-> v.err,
               roundTrips |-> 0, verifies |-> 1]
         ELSE LET expiry == IF duration.set
                            THEN DurationSeconds(duration.ns)
                            ELSE SecondsPerHour * 24 * 5
                  c == createSessionCookie(rev, idToken, expiry, reply) IN
              [cookie |-> c.cookie, err |-> c.err, dispatched |-> TRUE, verifyErr |-> Nil,
               roundTrips |-> c.roundTrips, verifies |-> 1, req |-> c.req]

\* auth.go:179-188  Auth.VerifySessionCookieAndCheckRevoked
VerifySessionCookieAndCheckRevoked(rev, cookie, tsOk) ==
    IF ensureTokenSource(tsOk).err # Nil
    THEN [user |-> NoUser, err |-> ErrTokenSource, lookups |-> 0, verified |-> FALSE,
          verifies |-> 0]
    ELSE verifySessionCookieAndCheckRevoked(rev, ProjectID, cookie)

\* auth.go:191-200  Auth.CheckRevoked
CheckRevoked(rev, cookie, tsOk) ==
    IF ensureTokenSource(tsOk).err # Nil
    THEN [val |-> FALSE, err |-> ErrTokenSource, lookups |-> 0, verified |-> FALSE,
          verifies |-> 0]
    ELSE checkSessionCookieRevoked(rev, ProjectID, cookie)

\* auth.go:103-109  Auth.GetUser
GetUser(uid, tsOk) ==
    IF ensureTokenSource(tsOk).err # Nil
    THEN [user |-> NoUser, err |-> ErrTokenSource, lookups |-> 0]
    ELSE LET a == getAccountByUID(uid) IN
         [user |-> a.user, err |-> a.err, lookups |-> 1]

\* auth.go:203-219  Auth.VerifySessionCookie
VerifySessionCookie(cookie, tsOk) ==
    IF ensureTokenSource(tsOk).err # Nil
    THEN [user |-> NoUser, err |-> ErrTokenSource, lookups |-> 0, verified |-> FALSE,
          verifies |-> 0]
    ELSE LET v == verifySessionCookie(ProjectID, cookie) IN
         IF v.err # Nil
         THEN [user |-> NoUser, err |-> v.err, lookups |-> 0, verified |-> FALSE,
               verifies |-> 1]
         ELSE LET uid == v.token.UID
                  g == GetUser(uid, TRUE) IN
              [user |-> g.user, err |-> g.err, lookups |-> g.lookups, verified |-> TRUE,
               verifies |-> 1]

\* UserProperties.SetValidSince(t) and requestHandler.updateExistingAccount:
\* the backend keeps validSince in seconds and reports it in milliseconds
updateExistingAccount(uid, validSince) ==
    [users EXCEPT ![uid] = validSince * MillisPerSecond]

\* auth.go:222-243  Auth.RevokeRefreshTokens
RevokeRefreshTokens(uid, tsOk) ==
    IF ensureTokenSource(tsOk).err # Nil
    THEN [err |-> ErrTokenSource, users |-> users, lookups |-> 0, writes |-> 0]
    ELSE LET g == GetUser(uid, TRUE) IN
         IF g.err # Nil
         THEN [err |-> g.err, users |-> users, lookups |-> g.lookups, writes |-> 0]
         ELSE IF g.user.UID # uid
         THEN [err |-> "User id match failed", users |-> users, lookups |-> g.lookups,
               writes |-> 0]
         ELSE [err |-> Nil, users |-> updateExistingAccount(uid, now),
               lookups |-> g.lookups + 1, writes |-> 1]

(* --------------------------- account management ----------------------- *)

\* the user id CreateUser may ask for, and the e-mail address of each account
NewUID == "carol"
EmailOf ==
    [u \in UIDs \cup {NewUID} |->
        CASE u = "alice" -> "alice@x" [] u = "bob" -> "bob@x" [] OTHER -> "carol@x"]
Emails == {EmailOf[u] : u \in DOMAIN EmailOf} \cup {"nobody@x"}

ErrBackend == "backend error"

\* UserProperties: the user id asked for and the validSince time, when set
UserPropertiesSet ==
    { [uid |-> u, hasValidSince |-> h, validSince |-> IF h THEN TickSeconds ELSE 0] :
        u \in {NewUID, "alice"}, h \in BOOLEAN }

\* the account record of uid among the accounts us
accountOf(us, uid) == [UID |-> uid, TokensValidAfterMillis |-> us[uid]]

\* requestHandler.getAccountByEmail: the account record with that address, or
\* AuthErrUserNotFound; one lookup at the backend
getAccountByEmail(email) ==
    IF \E u \in DOMAIN users : EmailOf[u] = email
    THEN [user |-> accountOf(users, CHOOSE u \in DOMAIN users : EmailOf[u] = email),
          err |-> Nil]
    ELSE [user |-> NoUser, err |-> AuthErrUserNotFound]

\* requestHandler.createNewAccount: the backend refuses a user id it has
createNewAccount(properties) ==
    IF properties.uid \in DOMAIN users
    THEN [uid |-> "", err |-> ErrBackend, users |-> users]
    ELSE [uid |-> properties.uid, err |-> Nil,
          users |-> [u \in DOMAIN users \cup {properties.uid} |->
                       IF u = properties.uid
                       THEN properties.validSince * MillisPerSecond
                       ELSE users[u]]]

\* requestHandler.deleteAccount
deleteAccount(uid) ==
    IF uid \in DOMAIN users
    THEN [err |-> Nil, users |-> [u \in DOMAIN users \ {uid} |-> users[u]]]
    ELSE [err |-> AuthErrUserNotFound, users |-> users]

\* auth.go:113-119  Auth.GetUserByEmail
GetUserByEmail(email, tsOk) ==
    IF ensureTokenSource(tsOk).err # Nil
    THEN [user |-> NoUser, err |-> ErrTokenSource, lookups |-> 0]
    ELSE LET a == getAccountByEmail(email) IN
         [user |-> a.user, err |-> a.err, lookups |-> 1]

\* auth.go:122-132  Auth.CreateUser
CreateUser(properties, tsOk) ==
    IF ensureTokenSource(tsOk).err # Nil
    THEN [user |-> NoUser, err |-> ErrTokenSource, lookups |-> 0, writes |-> 0,
          users |-> users]
    ELSE LET c == createNewAccount(properties) IN
         IF c.err # Nil
         THEN [user |-> NoUser, err |-> c.err, lookups |-> 0, writes |-> 1, users |-> users]
         ELSE [user |-> accountOf(c.users, c.uid), err |-> Nil, lookups |-> 1,
               writes |-> 1, users |-> c.users]

\* Auth.DeleteUser that deletes without a look at the token source
DeleteUserUnchecked(uid, tsOk) ==
    LET d == deleteAccount(uid) IN
    [err |-> d.err, writes |-> 1, users |-> d.users]

\* auth.go:136-142  Auth.DeleteUser
DeleteUser(uid, tsOk) ==
    IF ensureTokenSource(tsOk).err # Nil
    THEN [err |-> ErrTokenSource, writes |-> 0, users |-> users]
    ELSE LET d == deleteAccount(uid) IN
         [err |-> d.err, writes |-> 1, users |-> d.users]

\* auth.go:145-155  Auth.UpdateUser
UpdateUser(uid, properties, tsOk) ==
    IF ensureTokenSource(tsOk).err # Nil
    THEN [user |-> NoUser, err |-> ErrTokenSource, lookups |-> 0, writes |-> 0,
          users |-> users]
    ELSE IF uid \notin DOMAIN users
    THEN [user |-> NoUser, err |-> AuthErrUserNotFound, lookups |-> 0, writes |-> 1,
          users |-> users]
    ELSE LET us == IF properties.hasValidSince
                   THEN updateExistingAccount(uid, properties.validSince)
                   ELSE users IN
         [user |-> accountOf(us, uid), err |-> Nil, lookups |-> 1, writes |-> 1,
          users |-> us]

(* ------------------------------ Token model --------------------------- *)

\* a dynamically typed claim value (interface{}): its type and its value
Int64(n) == [type |-> "int64", n |-> n, s |-> "", b |-> FALSE]
Str(x) == [type |-> "string", n |-> 0, s |-> x, b |-> FALSE]
Bool(x) == [type |-> "bool", n |-> 0, s |-> "", b |-> x]
NilValue == [type |-> "nil", n |-> 0, s |-> "", b |-> FALSE]

ClaimKeys == {"auth_time", "name", "picture", "email", "email_verified"}
ClaimValues == {Int64(7), Str("x"), Bool(TRUE), Int64(0)}

EmptyClaims == [k \in {} |-> NilValue]

\* the Claims maps of the tokens the accessors are applied to
ClaimMaps ==
    {EmptyClaims}
    \cup { [k \in {key} |-> v] : key \in ClaimKeys, v \in ClaimValues }
    \cup { [k \in ClaimKeys |->
              CASE k = "auth_time" -> Int64(7)
                [] k = "email_verified" -> Bool(TRUE)
                [] OTHER -> Str("x")] }

\* t.Claims[key]: nil for a key the map lacks
Index(claims, key) == IF key \in DOMAIN claims THEN claims[key] ELSE NilValue

Returns(v) == [panic |-> FALSE, val |-> v]
Panics == [panic |-> TRUE, val |-> NilValue]

\* x.(T): the one-result type assertion panics on any other type
Assert1(v, type) == IF v.type = type THEN Returns(v) ELSE Panics

\* res, ok := x.(T)
Assert2(v, type) == [res |-> v, ok |-> v.type = type]

\* token.go:19-21
AuthTimeT1(t) == Assert1(Index(t.Claims, "auth_time"), "int64")
\* token.go:24-26
NameT1(t) == Assert1(Index(t.Claims, "name"), "string")
\* token.go:29-31
PictureT1(t) == Assert1(Index(t.Claims, "picture"), "string")
\* token.go:34-36
EmailT1(t) == Assert1(Index(t.Claims, "email"), "string")
\* token.go:40-42
IsEmailVerifiedT1(t) == Assert1(Index(t.Claims, "email_verified"), "bool")

\* part_002:19-24
AuthTimeT2(t) ==
    LET a == Assert2(Index(t.Claims, "auth_time"), "int64") IN
    IF a.ok THEN Returns(a.res) ELSE Returns(Int64(0))
\* part_002:27-32
NameT2(t) ==
    LET a == Assert2(Index(t.Claims, "name"), "string") IN
    IF a.ok THEN Returns(a.res) ELSE Returns(Str(""))
\* part_002:35-40
PictureT2(t) ==
    LET a == Assert2(Index(t.Claims, "picture"), "string") IN
    IF a.ok THEN Returns(a.res) ELSE Returns(Str(""))
\* part_002:43-48
EmailT2(t) ==
    LET a == Assert2(Index(t.Claims, "email"), "string") IN
    IF a.ok THEN Returns(a.res) ELSE Returns(Str(""))
\* part_002:52-57
IsEmailVerifiedT2(t) ==
    LET a == Assert2(Index(t.Claims, "email_verified"), "bool") IN
    IF a.ok THEN Returns(a.res) ELSE Returns(Bool(FALSE))

Accessors == {"AuthTime", "Name", "Picture", "Email", "IsEmailVerified"}
TokenFiles == {1, 2}

Accessor(file, name, t) ==
    CASE name = "AuthTime" -> IF file = 1 THEN AuthTimeT1(t) ELSE AuthTimeT2(t)
      [] name = "Name" -> IF file = 1 THEN NameT1(t) ELSE NameT2(t)
      [] name = "Picture" -> IF file = 1 THEN PictureT1(t) ELSE PictureT2(t)
      [] name = "Email" -> IF file = 1 THEN EmailT1(t) ELSE EmailT2(t)
      [] OTHER -> IF file = 1 THEN IsEmailVerifiedT1(t) ELSE IsEmailVerifiedT2(t)

(* ------------------------------ Token.SetClaims ----------------------- *)

\* a map value is held by reference: the token's own map, the map the caller
\* passes, or nil
NilRef == "nil"
OwnRef == "own"
ArgRef == "arg"

\* a map the environment supplies: nil, or one of ClaimMaps
MaybeMaps ==
    {[nil |-> TRUE, m |-> EmptyClaims]} \cup {[nil |-> FALSE, m |-> c] : c \in ClaimMaps}

\* the token of token_test.go with the Claims map own, beside the caller's
\* map arg
TokenStore(own, arg) ==
    [t |-> [Issuer |-> "iss", Audience |-> "aud", Expires |-> 100, IssuedAt |-> 100,
            Subject |-> "sub", UID |-> "uid",
            Claims |-> IF own.nil THEN NilRef ELSE OwnRef],
     maps |-> [own |-> own.m, arg |-> arg.m]]

\* the map behind a reference; ranging over or reading a nil map finds no key
Deref(st, ref) == IF ref = NilRef THEN EmptyClaims ELSE st.maps[ref]

\* m[key] = val
Put(m, key, val) == [k \in DOMAIN m \cup {key} |-> IF k = key THEN val ELSE m[k]]

\* for key, val := range claims { m[key] = val }, keys being those left
RECURSIVE RangeAssign(_, _, _)
RangeAssign(m, claims, keys) ==
    IF keys = {} THEN m
    ELSE LET key == CHOOSE k \in keys : TRUE IN
         RangeAssign(Put(m, key, claims[key]), claims, keys \ {key})

\* SetClaims that always takes the caller's map for the token's
SetClaimsReplace(st, claims) == [st EXCEPT !.t.Claims = claims]

\* token.go:49-57 (and part_002:64-72)
SetClaims(st, claims) ==
    IF st.t.Claims = NilRef
    THEN [st EXCEPT !.t.Claims = claims]
    ELSE [st EXCEPT !.maps[st.t.Claims] =
              RangeAssign(@, Deref(st, claims), DOMAIN Deref(st, claims))]

(* ------------------------------- actions ------------------------------ *)

NoCall == [op |-> "none"]

\* no call is being observed: the caller has taken the previous result
Idle == last = NoCall

Callers == 1..NumCallers
AppNames == {"[DEFAULT]", "other"}
NoAuth == [id |-> 0, app |-> ""]

Init ==
    /\ now = 0
    /\ users = [u \in UIDs |-> 0]
    /\ revokedAt = [u \in UIDs |-> -1]
    /\ ts = Nil
    /\ last = NoCall
    /\ authInstances = [holder |-> 0, m |-> [n \in {} |-> NoAuth]]
    /\ pc = [p \in Callers |-> "idle"]
    /\ appName = [p \in Callers |-> ""]
    /\ ret = [p \in Callers |-> NoAuth]
    /\ calls = [p \in Callers |-> 0]
    /\ heap = {}

\* the clock
Tick ==
    /\ Idle
    /\ now + TickSeconds <= MaxTicks * TickSeconds
    /\ now' = now + TickSeconds
    /\ UNCHANGED <<users, revokedAt, ts, last>>
    /\ UNCHANGED regVars

\* requestHandler.checkRevoked applied to a token
HandlerCheckRevoked ==
    \E rev \in Revisions, token \in Tokens :
        /\ Idle
        /\ last' = [op |-> "checkRevoked", rev |-> rev, token |-> token,
                    out |-> checkRevoked(rev, token)]
        /\ UNCHANGED <<now, users, revokedAt, ts>>
        /\ UNCHANGED regVars

\* a request validator applied to a request
ReqValidate ==
    \E rev \in Revisions, req \in GetAccountInfoRequests \cup
            {[type |-> "createSessionCookieRequest", IDToken |-> "t", Duration |-> 0]} :
        \E api \in APIs(rev) :
            /\ Idle
        /\ last' = [op |-> "reqFn", rev |-> rev, api |-> api, req |-> req,
                        out |-> reqFn(api, rev, req)]
            /\ UNCHANGED <<now, users, revokedAt, ts>>
            /\ UNCHANGED regVars

\* requestHandler.createSessionCookie
HandlerCreateSessionCookie ==
    \E rev \in Revisions, idToken \in {"t"}, duration \in {0, SecondsPerHour},
       reply \in Replies :
        /\ Idle
        /\ last' = [op |-> "createSessionCookie", rev |-> rev, idToken |-> idToken,
                    duration |-> duration, reply |-> reply,
                    out |-> createSessionCookie(rev, idToken, duration, reply)]
        /\ UNCHANGED <<now, users, revokedAt, ts>>
        /\ UNCHANGED regVars

AuthCreateSessionCookie ==
    \E rev \in Revisions, idToken \in IDTokens, duration \in Durations,
       tsOk \in BOOLEAN, saOk \in BOOLEAN, reply \in Replies :
        /\ Idle
        /\ last' = [op |-> "CreateSessionCookie", rev |-> rev, idToken |-> idToken,
                    duration |-> duration, at |-> now,
                    tsErr |-> ensureTokenSource(tsOk).err, before |-> users,
                    verify |-> VerifyIDToken(idToken, saOk),
                    out |-> CreateSessionCookie(rev, idToken, duration, tsOk, saOk, reply)]
        /\ ts' = ensureTokenSource(tsOk).ts
        /\ UNCHANGED <<now, users, revokedAt>>
        /\ UNCHANGED regVars

AuthVerifyIDToken ==
    \E tokenString \in JWTs, saOk \in BOOLEAN :
        /\ Idle
        /\ last' = [op |-> "VerifyIDToken", tokenString |-> tokenString, at |-> now,
                    out |-> VerifyIDToken(tokenString, saOk)]
        /\ UNCHANGED <<now, users, revokedAt, ts>>
        /\ UNCHANGED regVars

AuthVerifySessionCookie ==
    \E cookie \in JWTs, tsOk \in BOOLEAN :
        /\ Idle
        /\ last' = [op |-> "VerifySessionCookie", cookie |-> cookie, at |-> now,
                    tsErr |-> ensureTokenSource(tsOk).err, before |-> users,
                    out |-> VerifySessionCookie(cookie, tsOk)]
        /\ ts' = ensureTokenSource(tsOk).ts
        /\ UNCHANGED <<now, users, revokedAt>>
        /\ UNCHANGED regVars

AuthVerifySessionCookieAndCheckRevoked ==
    \E rev \in Revisions, cookie \in JWTs, tsOk \in BOOLEAN :
        /\ Idle
        /\ last' = [op |-> "VerifySessionCookieAndCheckRevoked", rev |-> rev,
                    cookie |-> cookie, at |-> now,
                    tsErr |-> ensureTokenSource(tsOk).err, before |-> users,
                    out |-> VerifySessionCookieAndCheckRevoked(rev, cookie, tsOk)]
        /\ ts' = ensureTokenSource(tsOk).ts
        /\ UNCHANGED <<now, users, revokedAt>>
        /\ UNCHANGED regVars

AuthCheckRevoked ==
    \E rev \in Revisions, cookie \in JWTs, tsOk \in BOOLEAN :
        /\ Idle
        /\ last' = [op |-> "CheckRevoked", rev |-> rev, cookie |-> cookie, at |-> now,
                    tsErr |-> ensureTokenSource(tsOk).err, before |-> users,
                    out |-> CheckRevoked(rev, cookie, tsOk)]
        /\ ts' = ensureTokenSource(tsOk).ts
        /\ UNCHANGED <<now, users, revokedAt>>
        /\ UNCHANGED regVars

AuthRevokeRefreshTokens ==
    \E uid \in UIDs \cup {"ghost"}, tsOk \in BOOLEAN :
        LET r == RevokeRefreshTokens(uid, tsOk) IN
        /\ Idle
        /\ last' = [op |-> "RevokeRefreshTokens", uid |-> uid, at |-> now,
                    tsErr |-> ensureTokenSource(tsOk).err, before |-> users,
                    out |-> [err |-> r.err, lookups |-> r.lookups, writes |-> r.writes]]
        /\ users' = r.users
        /\ revokedAt' = IF r.err = Nil THEN [revokedAt EXCEPT ![uid] = now] ELSE revokedAt
        /\ ts' = ensureTokenSource(tsOk).ts
        /\ UNCHANGED now
        /\ UNCHANGED regVars

\* the caller takes the result of the call
Return ==
    /\ ~Idle
    /\ last' = NoCall
    /\ UNCHANGED <<now, users, revokedAt, ts>>
    /\ UNCHANGED regVars

Next ==
    \/ Tick
    \/ HandlerCheckRevoked
    \/ ReqValidate
    \/ HandlerCreateSessionCookie
    \/ AuthCreateSessionCookie
    \/ AuthVerifyIDToken
    \/ AuthVerifySessionCookie
    \/ AuthVerifySessionCookieAndCheckRevoked
    \/ AuthCheckRevoked
    \/ AuthRevokeRefreshTokens
    \/ Return

Spec == Init /\ [][Next]_vars

(* ----------------------------- Token accessors ------------------------ *)

\* a typed accessor applied to a token
TokenAccessor ==
    \E file \in TokenFiles, name \in Accessors, claims \in ClaimMaps :
        /\ Idle
        /\ last' = [op |-> "accessor", file |-> file, name |-> name, claims |-> claims,
                    out |-> Accessor(file, name, [Claims |-> claims])]
        /\ UNCHANGED <<now, users, revokedAt, ts>>
        /\ UNCHANGED regVars

\* SetClaims applied to a token, once and once more
TokenSetClaims ==
    \E own \in MaybeMaps, arg \in MaybeMaps :
        LET st == TokenStore(own, arg)
            claims == IF arg.nil THEN NilRef ELSE ArgRef
            once == SetClaims(st, claims) IN
        /\ Idle
        /\ last' = [op |-> "SetClaims", before |-> st, claims |-> claims,
                    once |-> once, twice |-> SetClaims(once, claims)]
        /\ UNCHANGED <<now, users, revokedAt, ts>>
        /\ UNCHANGED regVars

NextToken ==
    \/ TokenAccessor
    \/ TokenSetClaims
    \/ Return

SpecToken == Init /\ [][NextToken]_vars

(* --------------------------- account operations ----------------------- *)

AuthGetUser ==
    \E uid \in UIDs \cup {"ghost"}, tsOk \in BOOLEAN :
        /\ Idle
        /\ last' = [op |-> "GetUser", uid |-> uid, at |-> now,
                    tsErr |-> ensureTokenSource(tsOk).err, before |-> users,
                    out |-> GetUser(uid, tsOk)]
        /\ ts' = ensureTokenSource(tsOk).ts
        /\ UNCHANGED <<now, users, revokedAt>>
        /\ UNCHANGED regVars

AuthGetUserByEmail ==
    \E email \in Emails, tsOk \in BOOLEAN :
        /\ Idle
        /\ last' = [op |-> "GetUserByEmail", email |-> email, at |-> now,
                    tsErr |-> ensureTokenSource(tsOk).err, before |-> users,
                    out |-> GetUserByEmail(email, tsOk)]
        /\ ts' = ensureTokenSource(tsOk).ts
        /\ UNCHANGED <<now, users, revokedAt>>
        /\ UNCHANGED regVars

AuthCreateUser ==
    \E properties \in UserPropertiesSet, tsOk \in BOOLEAN :
        LET r == CreateUser(properties, tsOk) IN
        /\ Idle
        /\ last' = [op |-> "CreateUser", properties |-> properties, at |-> now,
                    tsErr |-> ensureTokenSource(tsOk).err, before |-> users,
                    out |-> [user |-> r.user, err |-> r.err, lookups |-> r.lookups,
                             writes |-> r.writes]]
        /\ users' = r.users
        /\ ts' = ensureTokenSource(tsOk).ts
        /\ UNCHANGED <<now, revokedAt>>
        /\ UNCHANGED regVars

AuthDeleteUser ==
    \E uid \in {"bob", NewUID, "ghost"}, tsOk \in BOOLEAN :
        LET r == DeleteUser(uid, tsOk) IN
        /\ Idle
        /\ last' = [op |-> "DeleteUser", uid |-> uid, at |-> now,
                    tsErr |-> ensureTokenSource(tsOk).err, before |-> users,
                    out |-> [err |-> r.err, writes |-> r.writes]]
        /\ users' = r.users
        /\ ts' = ensureTokenSource(tsOk).ts
        /\ UNCHANGED <<now, revokedAt>>
        /\ UNCHANGED regVars

AuthUpdateUser ==
    \E uid \in {"alice", "ghost"}, properties \in UserPropertiesSet, tsOk \in BOOLEAN :
        LET r == UpdateUser(uid, properties, tsOk) IN
        /\ Idle
        /\ last' = [op |-> "UpdateUser", uid |-> uid, properties |-> properties,
                    at |-> now, tsErr |-> ensureTokenSource(tsOk).err, before |-> users,
                    out |-> [user |-> r.user, err |-> r.err, lookups |-> r.lookups,
                             writes |-> r.writes]]
        /\ users' = r.users
        /\ ts' = ensureTokenSource(tsOk).ts
        /\ UNCHANGED <<now, revokedAt>>
        /\ UNCHANGED regVars

\* the ten operations of Auth that go through the request handler, called
\* at one instant: the clock stands still
NextAuth ==
    \/ AuthGetUser
    \/ AuthGetUserByEmail
    \/ AuthCreateUser
    \/ AuthDeleteUser
    \/ AuthUpdateUser
    \/ AuthCreateSessionCookie
    \/ AuthVerifySessionCookie
    \/ AuthVerifySessionCookieAndCheckRevoked
    \/ AuthCheckRevoked
    \/ AuthRevokeRefreshTokens
    \/ Return

SpecAuth == Init /\ [][NextAuth]_vars

(* ------------------------------ Auth registry ------------------------- *)

\* auth.go:44  appName := app.name
Enter(p) ==
    \E name \in AppNames :
        /\ pc[p] = "idle"
        /\ calls[p] < MaxCalls
        /\ calls' = [calls EXCEPT ![p] = @ + 1]
        /\ appName' = [appName EXCEPT ![p] = name]
        /\ pc' = [pc EXCEPT ![p] = "lock"]
        /\ UNCHANGED <<authInstances, ret, heap>>
        /\ UNCHANGED coreVars

\* sync.Mutex.Lock: the caller waits until no one holds the mutex
NoMutex(p) == TRUE
MutexFree(p) == authInstances.holder = 0

\* auth.go:45-46  authInstances.Lock(); defer authInstances.Unlock()
Lock(p) ==
    /\ pc[p] = "lock"
    /\ MutexFree(p)
    /\ authInstances' = [authInstances EXCEPT !.holder = p]
    /\ pc' = [pc EXCEPT ![p] = "check"]
    /\ UNCHANGED <<appName, ret, calls, heap>>
    /\ UNCHANGED coreVars

\* auth.go:47  if _, ok := authInstances.m[appName]; !ok
Check(p) ==
    /\ pc[p] = "check"
    /\ pc' = [pc EXCEPT ![p] =
                IF appName[p] \in DOMAIN authInstances.m THEN "return" ELSE "create"]
    /\ UNCHANGED <<authInstances, appName, ret, calls, heap>>
    /\ UNCHANGED coreVars

\* auth.go:48  authInstances.m[appName] = &Auth{app: app}
Create(p) ==
    /\ pc[p] = "create"
    /\ LET auth == [id |-> Cardinality(heap) + 1, app |-> appName[p]] IN
        /\ heap' = heap \cup {auth}
        /\ authInstances' =
              [authInstances EXCEPT !.m =
                  [n \in DOMAIN authInstances.m \cup {appName[p]} |->
                      IF n = appName[p] THEN auth ELSE authInstances.m[n]]]
    /\ pc' = [pc EXCEPT ![p] = "return"]
    /\ UNCHANGED <<appName, ret, calls>>
    /\ UNCHANGED coreVars

\* auth.go:50  return authInstances.m[appName], nil  (and the deferred Unlock)
Leave(p) ==
    /\ pc[p] = "return"
    /\ ret' = [ret EXCEPT ![p] = authInstances.m[appName[p]]]
    /\ authInstances' = [authInstances EXCEPT !.holder = 0]
    /\ pc' = [pc EXCEPT ![p] = "idle"]
    /\ UNCHANGED <<appName, calls, heap>>
    /\ UNCHANGED coreVars

\* auth.go:43-51  GetAuthWithApp, one step of one caller
GetAuthWithApp(p) ==
    \/ Enter(p)
    \/ Lock(p)
    \/ Check(p)
    \/ Create(p)
    \/ Leave(p)

NextRegistry == \E p \in Callers : GetAuthWithApp(p)

SpecRegistry == Init /\ [][NextRegistry]_vars

(* -------------------------------- claims ------------------------------ *)

\* C1: for a token with a non-empty user-id whose account record is returned,
\* checkRevoked returns true exactly when issued-at * 1000 is below the
\* account's TokensValidAfterMillis, and false at equality.
C1_CheckRevokedExact ==
    (/\ last.op = "checkRevoked"
     /\ last.token.UID \in DOMAIN users
     /\ last.token.hasIat)
    => /\ last.out.err = Nil
       /\ last.out.val =
            (last.token.IssuedAt * MillisPerSecond < users[last.token.UID])

\* C1 on the second listing alone (session_api_request.go:231-242)
C1_CheckRevokedExactR2 ==
    (last.op = "checkRevoked" /\ last.rev = 2) => C1_CheckRevokedExact

\* C2: for a cookie that verifies, verifySessionCookieAndCheckRevoked reports
\* Revoked and no account when issued-at * 1000 is below TokensValidAfterMillis,
\* and returns the account of the token's user-id otherwise; a verification
\* failure is reported as the verifier's error, never as Revoked.
C2_RevokedReported ==
    (/\ last.op = "VerifySessionCookieAndCheckRevoked"
     /\ last.out.err # ErrTokenSource)
    => LET v == verifySessionCookie(ProjectID, last.cookie)
           uid == last.cookie.sub IN
       /\ v.err # Nil => (last.out.err = v.err /\ last.out.err # ErrRevoked)
       /\ (v.err = Nil /\ uid \in DOMAIN users) =>
            IF last.cookie.iat * MillisPerSecond < users[uid]
            THEN last.out.err = ErrRevoked /\ last.out.user = NoUser
            ELSE last.out.err = Nil /\ last.out.user.UID = uid

\* C3: under any interleaving of GetAuthWithApp calls the registry holds at
\* most one Auth per application name: calls for the same name return the
\* same instance, calls for different names different instances, and an entry
\* once created is never replaced or removed.
C3_RegistryOnePerName ==
    /\ \A a, b \in heap : a.app = b.app => a = b
    /\ \A n \in DOMAIN authInstances.m : authInstances.m[n].app = n
    /\ \A p \in Callers :
          ret[p] # NoAuth =>
              /\ ret[p].app \in DOMAIN authInstances.m
              /\ ret[p] = authInstances.m[ret[p].app]
    /\ \A p \in Callers :
          (pc[p] = "idle" /\ calls[p] > 0) => ret[p].app = appName[p]
    /\ \A p, q \in Callers :
          (ret[p] # NoAuth /\ ret[q] # NoAuth) =>
              (ret[p].id = ret[q].id <=> ret[p].app = ret[q].app)

C3_EntriesStable ==
    \A n \in DOMAIN authInstances.m :
        /\ n \in DOMAIN authInstances'.m
        /\ authInstances'.m[n] = authInstances.m[n]

C3_OneAuthPerApp == [](C3_RegistryOnePerName) /\ [][C3_EntriesStable]_vars

\* C3 witness: two callers hold the same instance for one name, a third holds
\* another instance for another name, after calls that overlapped
C3_Witness ==
    \E p, q, r \in Callers :
        /\ p # q
        /\ ret[p] # NoAuth /\ ret[p] = ret[q]
        /\ ret[r] # NoAuth /\ ret[r].app # ret[p].app /\ ret[r].id # ret[p].id
        /\ calls[p] = MaxCalls
        /\ \E w \in Callers : pc[w] = "lock" /\ authInstances.holder # 0

\* C4: the request createSessionCookie builds is accepted by the request
\* validator of createSessionCookieAPI, and for a reachable backend that
\* returns a cookie the call succeeds with that cookie.
C4_CreateSessionCookieSucceeds ==
    (last.op = "createSessionCookie" /\ last.reply.reachable)
    => /\ reqFn("createSessionCookieAPI", last.rev, last.out.req) = Nil
       /\ respFn("createSessionCookieAPI", last.rev, last.reply.resp) = Nil
       /\ last.out.err = Nil
       /\ last.out.cookie = last.reply.resp.SessionCookie

\* C5: the request validator reports IllegalType exactly for a request that is
\* not of the shape the request specification expects, MissingRequestTarget
\* exactly for one of that shape with neither account id nor email, and
\* success otherwise; when the validator fails createSessionCookie makes no
\* round trip and returns that error unchanged with no cookie.
C5_ValidatorFailureAborts ==
    /\ last.op = "reqFn" =>
          LET shaped == last.req.type = "getAccountInfoRequest"
              target == shaped /\ (last.req.LocalID # <<>> \/ last.req.Email # <<>>) IN
          /\ last.out = errIllegalType <=> ~shaped
          /\ last.out = errMissingRequestTarget <=> (shaped /\ ~target)
          /\ last.out = Nil <=> target
    /\ last.op = "createSessionCookie" =>
          LET e == reqFn("createSessionCookieAPI", last.rev, last.out.req) IN
          e # Nil => /\ last.out.roundTrips = 0
                     /\ last.out.err = e
                     /\ last.out.cookie = Nil

\* C5 witness: createSessionCookie against a reachable backend stopped by the
\* validator before any round trip
C5_Witness ==
    /\ last.op = "createSessionCookie"
    /\ last.reply.reachable
    /\ last.out.err \in {errIllegalType, errMissingRequestTarget}
    /\ last.out.roundTrips = 0
    /\ last.out.cookie = Nil

\* C6: checkRevoked on a token with an empty user-id fails with MissingUID
\* and looks up no account; an account is fetched only for a non-empty
\* user-id.
C6_MissingUID ==
    (last.op = "checkRevoked" /\ last.token.UID = "")
    => /\ last.out.err = ErrMissingUID
       /\ last.out.lookups = 0

\* C6 on the first listing alone (session_api_request.go:119-136)
C6_MissingUIDR1 ==
    (last.op = "checkRevoked" /\ last.rev = 1) => C6_MissingUID

\* C7: verifySessionCookie expects the session-cookie issuer, VerifyIDToken
\* the plain ID-token issuer: a token with the ID-token issuer is rejected by
\* VerifySessionCookie and one with the session-cookie issuer by VerifyIDToken.
C7_IssuerVariantsDistinct ==
    /\ (/\ last.op = "VerifySessionCookie"
        /\ last.tsErr = Nil
        /\ last.cookie.iss = IDTokenIssuer(ProjectID))
       => ~last.out.verified
    /\ (/\ last.op = "VerifyIDToken"
        /\ last.tokenString.iss = SessionCookieIssuer(ProjectID))
       => last.out.err # Nil

\* C8: each typed accessor returns the claim's value when the claim is present
\* with the expected type, and the zero value, without failing, when it is
\* absent or of another type.
C8_AccessorsNeverFail ==
    last.op = "accessor" =>
        LET key == CASE last.name = "AuthTime" -> "auth_time"
                     [] last.name = "Name" -> "name"
                     [] last.name = "Picture" -> "picture"
                     [] last.name = "Email" -> "email"
                     [] OTHER -> "email_verified"
            type == CASE last.name = "AuthTime" -> "int64"
                      [] last.name = "IsEmailVerified" -> "bool"
                      [] OTHER -> "string"
            zero == CASE last.name = "AuthTime" -> Int64(0)
                      [] last.name = "IsEmailVerified" -> Bool(FALSE)
                      [] OTHER -> Str("")
            present == key \in DOMAIN last.claims /\ last.claims[key].type = type IN
        /\ ~last.out.panic
        /\ last.out.val = IF present THEN last.claims[key] ELSE zero

\* C8 on part_002 alone (src/unnamed/part_002:18-57)
C8_AccessorsNeverFailT2 ==
    (last.op = "accessor" /\ last.file = 2) => C8_AccessorsNeverFail

\* C9: once RevokeRefreshTokens(uid) has succeeded at time T, CheckRevoked
\* reports revoked for every cookie of that user issued before T and not
\* revoked for every cookie issued after T, whatever the absolute value of the
\* issued-at timestamp.
C9_RevocationByIssuedAt ==
    (/\ last.op = "CheckRevoked"
     /\ last.out.verified
     /\ last.out.err = Nil
     /\ revokedAt[last.cookie.sub] >= 0)
    => /\ last.cookie.iat < revokedAt[last.cookie.sub] => last.out.val
       /\ last.cookie.iat > revokedAt[last.cookie.sub] => ~last.out.val

\* C9 on the second listing alone (session_api_request.go:219-242)
C9_RevocationByIssuedAtR2 ==
    (last.op = "CheckRevoked" /\ last.rev = 2) => C9_RevocationByIssuedAt

FiveDaysSeconds == 432000

\* C10: Auth.CreateSessionCookie never dispatches create-session-cookie for an
\* idToken that fails VerifyIDToken, returning the verification error and no
\* cookie; when it dispatches, the duration sent is the caller's duration in
\* whole seconds, or 432000 seconds when the caller passes none.
C10_VerifiedBeforeDispatch ==
    last.op = "CreateSessionCookie" =>
        /\ last.out.dispatched => last.verify.err = Nil
        /\ last.out.verifyErr # Nil =>
              /\ ~last.out.dispatched
              /\ last.out.roundTrips = 0
              /\ last.out.cookie = Nil
              /\ last.out.err = last.out.verifyErr
              /\ last.out.err = last.verify.err
        /\ last.out.dispatched =>
              /\ last.out.req.IDToken = last.idToken
              /\ IF ~last.duration.set
                 THEN last.out.req.Duration = FiveDaysSeconds
                 ELSE LET rest == last.duration.ns
                                    - last.out.req.Duration * NanosPerSecond IN
                      IF last.duration.ns >= 0
                      THEN rest \in 0..(NanosPerSecond - 1)
                      ELSE rest \in (1 - NanosPerSecond)..0

\* C10 witness: a verified idToken dispatched with no duration given, and so
\* with 432000 seconds
C10_Witness ==
    /\ last.op = "CreateSessionCookie"
    /\ last.out.dispatched
    /\ ~last.duration.set
    /\ last.out.req.Duration = FiveDaysSeconds
    /\ last.verify.err = Nil

\* C12: Token.SetClaims(c) is a merge: afterwards every key of c maps to c's
\* value, every previous key not in c keeps its value, no other key is
\* present, the standard fields are unchanged, and applying SetClaims(c)
\* twice gives the same token as applying it once.
C12_SetClaimsMerges ==
    last.op = "SetClaims" =>
        LET old == Deref(last.before, last.before.t.Claims)
            c == Deref(last.before, last.claims)
            new == Deref(last.once, last.once.t.Claims)
            Fields(t) == <<t.Issuer, t.Audience, t.Expires, t.IssuedAt, t.Subject, t.UID>> IN
        /\ \A k \in DOMAIN c : k \in DOMAIN new /\ new[k] = c[k]
        /\ \A k \in DOMAIN old \ DOMAIN c : k \in DOMAIN new /\ new[k] = old[k]
        /\ DOMAIN new = DOMAIN old \cup DOMAIN c
        /\ Fields(last.once.t) = Fields(last.before.t)
        /\ last.twice = last.once

\* C12 witness: a token with several claims merged with a map that overrides
\* one of them with another value and leaves the others
C12_Witness ==
    /\ last.op = "SetClaims"
    /\ LET old == Deref(last.before, last.before.t.Claims)
           c == Deref(last.before, last.claims)
           new == Deref(last.once, last.once.t.Claims) IN
       /\ \E k \in DOMAIN old \cap DOMAIN c : old[k] # c[k] /\ new[k] = c[k]
       /\ \E k \in DOMAIN old \ DOMAIN c : new[k] = old[k]

\* C12 witness of the nil case: a token without a Claims map takes the
\* caller's map
C12_NilCase ==
    /\ last.op = "SetClaims"
    /\ last.before.t.Claims = NilRef
    /\ last.once.t.Claims = ArgRef
    /\ DOMAIN Deref(last.once, ArgRef) # {}

\* C11: each of the ten operations of Auth that go through the request
\* handler calls ensureTokenSource first: when ensureTokenSource fails, the
\* operation returns the wrapped error with a nil or false result, makes no
\* remote call, verifies no token and leaves the accounts and the token
\* source as they were; when it does not fail, the token source is built
\* before anything else is done.
C11_TokenSourceFirst ==
    LET op == last.op
        out == last.out
        DispatcherOps ==
            {"GetUser", "GetUserByEmail", "CreateUser", "DeleteUser", "UpdateUser",
             "CreateSessionCookie", "VerifySessionCookie",
             "VerifySessionCookieAndCheckRevoked", "CheckRevoked", "RevokeRefreshTokens"}
        RemoteCalls ==
            CASE op \in {"GetUser", "GetUserByEmail", "VerifySessionCookie",
                         "VerifySessionCookieAndCheckRevoked", "CheckRevoked"} -> out.lookups
              [] op \in {"CreateUser", "UpdateUser", "RevokeRefreshTokens"} ->
                    out.lookups + out.writes
              [] op = "DeleteUser" -> out.writes
              [] op = "CreateSessionCookie" -> out.roundTrips
        Verifications ==
            IF op \in {"CreateSessionCookie", "VerifySessionCookie",
                       "VerifySessionCookieAndCheckRevoked", "CheckRevoked"}
            THEN out.verifies ELSE 0
        NilResult ==
            CASE op \in {"GetUser", "GetUserByEmail", "CreateUser", "UpdateUser",
                         "VerifySessionCookie", "VerifySessionCookieAndCheckRevoked"} ->
                    out.user = NoUser
              [] op = "CreateSessionCookie" -> out.cookie = Nil /\ ~out.dispatched
              [] op = "CheckRevoked" -> out.val = FALSE
              [] op \in {"DeleteUser", "RevokeRefreshTokens"} -> TRUE
    IN
    op \in DispatcherOps =>
        /\ last.tsErr # Nil =>
              /\ out.err = ErrTokenSource
              /\ NilResult
              /\ RemoteCalls = 0
              /\ Verifications = 0
              /\ users = last.before
              /\ ts = Nil
        /\ last.tsErr = Nil => ts # Nil
        /\ (RemoteCalls > 0 \/ Verifications > 0) => ts # Nil

\* C11 witness: DeleteUser of an account that exists, called when the token
\* source cannot be built
C11_Witness ==
    /\ last.op = "DeleteUser"
    /\ last.tsErr # Nil
    /\ last.uid \in DOMAIN last.before
    /\ last.out.err = ErrTokenSource

\* C11 witness of a verifying operation: CreateSessionCookie with an ID
\* token that VerifyIDToken accepts, called when the token source cannot be
\* built
C11_WitnessVerifying ==
    /\ last.op = "CreateSessionCookie"
    /\ last.tsErr # Nil
    /\ last.verify.err = Nil
    /\ last.out.err = ErrTokenSource

====
